---- MODULE Spec2Model ----
(***************************************************************************)
(* SmManager (src/src/system/sm_manager.cpp): the catalog manager of the   *)
(* storage engine.  One manager object, its catalog db_, its two handle    *)
(* registries fhs_ and ihs_, the process working directory, and the disk   *)
(* (database directories, metadata files, record files, index files).      *)
(* Every handler of the manager is one action; a handler that throws       *)
(* keeps the effects it had before the throw.                              *)
(***************************************************************************)
EXTENDS Integers, Sequences, FiniteSets, TLC

VARIABLES db, fhs, ihs, cwd, fs, call

vars == <<db, fhs, ihs, cwd, fs, call>>

\* ------------------------------------------------------------------ bounds
\* Records a table scan may return.
MaxRecs == 2
\* Depth of the directories create_db may make when called at any time.
MaxDepth == 2

\* ------------------------------------------------------------------ inputs
\* The names open_db is called with, and the names create_db is called with.
DbNames == {"d1", "d2"}
CreateNames == {"d1"}
\* The tables of the calls, and the tables the index calls are made on.
TabNames == {"t1", "t2"}
IndexTabs == {"t1"}
\* std::map iterates its keys in ascending order.
TabOrder == <<"t1", "t2">>

ColA == [name |-> "a", type |-> "INT", len |-> 4]
ColB == [name |-> "b", type |-> "CHAR", len |-> 8]
\* The column definitions CreateTable is called with.
Schemas == {<<ColA, ColB>>, <<ColB, ColA>>}
\* The column-name lists CreateIndex and DropIndex are called with.
IndexColLists == {<<"a">>, <<"b", "a">>, <<"c">>}

\* ------------------------------------------------------------------ maps
EmptyMap == [x \in {} |-> 0]
Put(f, k, v) == [x \in (DOMAIN f) \cup {k} |-> IF x = k THEN v ELSE f[x]]
Del(f, k) == [x \in (DOMAIN f) \ {k} |-> f[x]]
\* std::map::emplace: an existing key keeps its value.
Emplace(f, k, v) == IF k \in DOMAIN f THEN f ELSE Put(f, k, v)

RECURSIVE Flat(_)
Flat(ss) == IF ss = <<>> THEN <<>> ELSE Head(ss) \o Flat(Tail(ss))

RECURSIVE SumLen(_)
SumLen(cols) == IF cols = <<>> THEN 0 ELSE Head(cols).len + SumLen(Tail(cols))

\* ------------------------------------------------------------------ catalog
EmptyDb == [name |-> "", tabs |-> EmptyMap]
is_table(d, tab) == tab \in DOMAIN d.tabs
\* The tables of a catalog in the order std::map iterates them.
TabSeq(d) == SelectSeq(TabOrder, LAMBDA t : t \in DOMAIN d.tabs)

\* ------------------------------------------------------------------ disk
\* A directory: its metadata file, its log file, its record files (name ->
\* record size) and its index files (canonical names).
NoFile == [exists |-> FALSE, data |-> <<>>]
EmptyFile == [exists |-> TRUE, data |-> <<>>]
FileOf(toks) == [exists |-> TRUE, data |-> toks]
EmptyDir == [meta |-> NoFile, log |-> FALSE, recs |-> EmptyMap, idx |-> {}]

is_dir(f, wd, name) == (wd \o <<name>>) \in DOMAIN f
\* chdir(".."): the root is its own parent.
Parent(wd) == IF wd = <<>> THEN <<>> ELSE SubSeq(wd, 1, Len(wd) - 1)

\* A handle is the file it is open on; the null handle is what
\* std::map::operator[] default-constructs for a missing key.
NullHandle == [dir |-> <<>>, file |-> <<>>]
Handle(wd, file) == [dir |-> wd, file |-> file]

\* The canonical index name, derived from the table (or file) name and the
\* ordered key-column names.
get_index_name(file, col_names) == file \o col_names \o <<"idx">>
ColNames(cols) == [i \in 1..Len(cols) |-> cols[i].name]

\* ------------------------------------------------------------------ metadata file
NumRange == 0..32
NumStr(n) == ToString(n)
StrNum(s) == IF \E n \in NumRange : ToString(n) = s
             THEN CHOOSE n \in NumRange : ToString(n) = s
             ELSE 0
BoolStr(b) == IF b THEN "1" ELSE "0"

SerCol(c) == <<c.name, c.type, NumStr(c.len), NumStr(c.offset), BoolStr(c.index)>>
SerCols(cols) == Flat([i \in 1..Len(cols) |-> SerCol(cols[i])])
SerIndex(ix) == <<NumStr(ix.col_num), NumStr(ix.col_tot_len)>> \o SerCols(ix.cols)
SerTab(t) ==
    <<t.name, NumStr(Len(t.cols))>> \o SerCols(t.cols)
    \o <<NumStr(Len(t.indexes))>>
    \o Flat([i \in 1..Len(t.indexes) |-> SerIndex(t.indexes[i])])
\* operator<< of DbMeta: the whole catalog as one token stream.
Serialize(d) ==
    <<d.name, NumStr(Cardinality(DOMAIN d.tabs))>>
    \o Flat([i \in 1..Len(TabSeq(d)) |-> SerTab(d.tabs[TabSeq(d)[i]])])

Tok(toks, p) == IF p \in 1..Len(toks) THEN toks[p] ELSE ""

ParseCol(toks, p, tab) ==
    [val |-> [tab_name |-> tab, name |-> Tok(toks, p), type |-> Tok(toks, p + 1),
              len |-> StrNum(Tok(toks, p + 2)), offset |-> StrNum(Tok(toks, p + 3)),
              index |-> Tok(toks, p + 4) = "1"],
     pos |-> p + 5]

RECURSIVE ParseCols(_, _, _, _)
ParseCols(toks, p, n, tab) ==
    IF n = 0 THEN [val |-> <<>>, pos |-> p]
    ELSE LET c == ParseCol(toks, p, tab)
             rest == ParseCols(toks, c.pos, n - 1, tab)
         IN  [val |-> <<c.val>> \o rest.val, pos |-> rest.pos]

ParseIndex(toks, p, tab) ==
    LET n == StrNum(Tok(toks, p))
        cs == ParseCols(toks, p + 2, n, tab)
    IN  [val |-> [tab_name |-> tab, col_tot_len |-> StrNum(Tok(toks, p + 1)),
                  col_num |-> n, cols |-> cs.val],
         pos |-> cs.pos]

RECURSIVE ParseIndexes(_, _, _, _)
ParseIndexes(toks, p, n, tab) ==
    IF n = 0 THEN [val |-> <<>>, pos |-> p]
    ELSE LET x == ParseIndex(toks, p, tab)
             rest == ParseIndexes(toks, x.pos, n - 1, tab)
         IN  [val |-> <<x.val>> \o rest.val, pos |-> rest.pos]

ParseTab(toks, p) ==
    LET tab == Tok(toks, p)
        cs == ParseCols(toks, p + 2, StrNum(Tok(toks, p + 1)), tab)
        xs == ParseIndexes(toks, cs.pos + 1, StrNum(Tok(toks, cs.pos)), tab)
    IN  [val |-> [name |-> tab, cols |-> cs.val, indexes |-> xs.val], pos |-> xs.pos]

RECURSIVE ParseTabs(_, _, _)
ParseTabs(toks, p, n) ==
    IF n = 0 THEN EmptyMap
    ELSE LET t == ParseTab(toks, p)
         IN  Put(ParseTabs(toks, t.pos, n - 1), t.val.name, t.val)

\* operator>> of DbMeta.  On an empty file every extraction fails: the name
\* stays empty and no table is read.
Load(toks) ==
    IF toks = <<>> THEN EmptyDb
    ELSE [name |-> Tok(toks, 1), tabs |-> ParseTabs(toks, 3, StrNum(Tok(toks, 2)))]

\* ------------------------------------------------------------------ manager state
\* The manager and the disk as one value; err is the exception a handler
\* ends with ("none": it returned), out what the handler handed to the
\* index store.
NoOut == [scan |-> <<>>, entries |-> <<>>, dup |-> FALSE, events |-> <<>>]
Cur == [db |-> db, fhs |-> fhs, ihs |-> ihs, cwd |-> cwd, fs |-> fs,
        err |-> "none", out |-> NoOut]
Throw(s, e) == [s EXCEPT !.err = e]
\* A call on the record store or the index store, noted in the order made.
Event(s, op, file) == [s EXCEPT !.out.events = Append(@, [op |-> op, file |-> file])]

\* What a use of a null handle (undefined behaviour) may do: end the
\* process, or pass as if nothing was done.
UBOutcomes == {"crash", "noop"}
\* The process is gone: a new manager starts at the root with an empty
\* catalog and empty registries; the disk keeps what was written.
Crashed(s) == [s EXCEPT !.db = EmptyDb, !.fhs = EmptyMap, !.ihs = EmptyMap,
                        !.cwd = <<>>, !.err = "Crash", !.out = NoOut]

\* ------------------------------------------------------------------ collaborators
\* RmManager::create_file: a new record file of the given record size.
RmFileExists(s, tab) == tab \in DOMAIN s.fs[s.cwd].recs
RmCreateFile(s, tab, record_size) ==
    IF RmFileExists(s, tab) THEN Throw(s, "FileExistsError")
    ELSE Event([s EXCEPT !.fs[s.cwd].recs = Put(@, tab, record_size)],
               "create_file", <<tab>>)
RmDestroyFile(s, tab) ==
    IF ~RmFileExists(s, tab) THEN Throw(s, "FileNotFoundError")
    ELSE Event([s EXCEPT !.fs[s.cwd].recs = Del(@, tab)], "destroy_file", <<tab>>)
\* RmManager::open_file / close_file.
RmOpenFile(s, tab) == Event(s, "open_file", <<tab>>)
RmCloseFile(s, h) == Event(s, "close_file", h.file)
\* DiskManager::is_file on an index name.
is_file(s, ix_name) == ix_name \in s.fs[s.cwd].idx
\* IxManager::create_index / destroy_index / open_index resolve the
\* structure by the canonical name of (file, column names).
IxCreateIndex(s, file, col_names) ==
    Event([s EXCEPT !.fs[s.cwd].idx = @ \cup {get_index_name(file, col_names)}],
          "create_index", get_index_name(file, col_names))
IxDestroyIndex(s, file, col_names) ==
    IF ~is_file(s, get_index_name(file, col_names)) THEN Throw(s, "FileNotFoundError")
    ELSE Event([s EXCEPT !.fs[s.cwd].idx = @ \ {get_index_name(file, col_names)}],
               "destroy_index", get_index_name(file, col_names))
IxCanOpen(s, file, col_names) == is_file(s, get_index_name(file, col_names))
IxHandle(s, file, col_names) == Handle(s.cwd, get_index_name(file, col_names))
IxOpenIndex(s, file, col_names) == Event(s, "open_index", get_index_name(file, col_names))
IxCloseIndex(s, h) == Event(s, "close_index", h.file)

\* ------------------------------------------------------------------ flush_meta
\* A handler that returns without writing the catalog.
flush_meta_skipped(s) == s
\* Lines 139-143: the metadata file is overwritten with the whole catalog.
flush_meta(s) == [s EXCEPT !.fs[s.cwd].meta = FileOf(Serialize(s.db))]

\* ------------------------------------------------------------------ create_db
\* A create_db without the chdir("..") of lines 69-71.
create_db_stays(s, db_name) ==
    IF is_dir(s.fs, s.cwd, db_name) THEN Throw(s, "DatabaseExistsError")
    ELSE LET wd == s.cwd \o <<db_name>>
             new_db == [name |-> db_name, tabs |-> EmptyMap]
             made == [EmptyDir EXCEPT !.meta = FileOf(Serialize(new_db)), !.log = TRUE]
         IN  [s EXCEPT !.fs = Put(@, wd, made), !.cwd = wd]

\* Lines 36-72.
create_db(s, db_name) ==
    IF is_dir(s.fs, s.cwd, db_name) THEN Throw(s, "DatabaseExistsError")
    ELSE LET wd == s.cwd \o <<db_name>>
             new_db == [name |-> db_name, tabs |-> EmptyMap]
             made == [EmptyDir EXCEPT !.meta = FileOf(Serialize(new_db)), !.log = TRUE]
         IN  [s EXCEPT !.fs = Put(@, wd, made), !.cwd = Parent(wd)]

\* ------------------------------------------------------------------ open_db
\* The key open_db registers an index handle under.
OpenDbIndexKey(tab, index_name) == <<tab.name>>

RECURSIVE open_db_indexes(_, _, _)
open_db_indexes(s, tab, i) ==
    IF i > Len(tab.indexes) THEN s
    ELSE LET cols == ColNames(tab.indexes[i].cols)
             index_name == get_index_name(<<tab.name>>, cols)
         IN  IF ~IxCanOpen(s, index_name, cols) THEN Throw(s, "FileNotFoundError")
             ELSE open_db_indexes(
                    [IxOpenIndex(s, index_name, cols) EXCEPT
                        !.ihs = Emplace(@, OpenDbIndexKey(tab, index_name),
                                        IxHandle(s, index_name, cols))],
                    tab, i + 1)

RECURSIVE open_db_tables(_, _)
open_db_tables(s, names) ==
    IF names = <<>> THEN s
    ELSE LET tab == s.db.tabs[Head(names)]
         IN  IF ~RmFileExists(s, tab.name) THEN Throw(s, "FileNotFoundError")
             ELSE LET s1 == [RmOpenFile(s, tab.name) EXCEPT
                                !.fhs = Emplace(@, tab.name, Handle(s.cwd, <<tab.name>>))]
                      s2 == open_db_indexes(s1, tab, 1)
                  IN  IF s2.err # "none" THEN s2 ELSE open_db_tables(s2, Tail(names))

open_db(s, db_name) ==
    IF ~is_dir(s.fs, s.cwd, db_name) THEN Throw(s, "DatabaseNotFoundError")
    ELSE IF s.db.name # "" THEN Throw(s, "DatabaseExistsError")
    ELSE LET s1 == [s EXCEPT !.cwd = s.cwd \o <<db_name>>]
         IN  IF ~s1.fs[s1.cwd].meta.exists THEN Throw(s1, "UnixError")
             ELSE LET s2 == [s1 EXCEPT !.db = Load(s1.fs[s1.cwd].meta.data)]
                  IN  open_db_tables(s2, TabSeq(s2.db))

\* ------------------------------------------------------------------ close_db
\* Lines 150-151: the catalog is written, then the file is opened for
\* writing again, which truncates it.
close_db_meta(s) == [flush_meta(s) EXCEPT !.fs[s.cwd].meta = EmptyFile]

\* The keys of a registry in the order its iteration hands them out: one
\* fixed order.
RECURSIVE KeySeq(_)
KeySeq(keys) ==
    IF keys = {} THEN <<>>
    ELSE LET k == CHOOSE x \in keys : TRUE
         IN  <<k>> \o KeySeq(keys \ {k})

\* Lines 157-160 and 166-169: every handle of a registry is closed.
RECURSIVE close_files(_, _, _, _)
close_files(s, reg, keys, ub) ==
    IF keys = <<>> THEN s
    ELSE IF reg[Head(keys)] = NullHandle /\ ub = "crash" THEN Crashed(s)
    ELSE close_files(RmCloseFile(s, reg[Head(keys)]), reg, Tail(keys), ub)

\* A close_db that leaves the index handles open.
close_indexes_skipped(s, reg, keys, ub) == s
RECURSIVE close_indexes(_, _, _, _)
close_indexes(s, reg, keys, ub) ==
    IF keys = <<>> THEN s
    ELSE IF reg[Head(keys)] = NullHandle /\ ub = "crash" THEN Crashed(s)
    ELSE close_indexes(IxCloseIndex(s, reg[Head(keys)]), reg, Tail(keys), ub)

close_db(s, ub) ==
    LET s1 == close_db_meta(s)
        s2 == [s1 EXCEPT !.db = EmptyDb]
        s3 == close_files(s2, s2.fhs, KeySeq(DOMAIN s2.fhs), ub)
        s4 == IF s3.err # "none" THEN s3 ELSE [s3 EXCEPT !.fhs = EmptyMap]
        s5 == IF s4.err # "none" THEN s4
              ELSE close_indexes(s4, s4.ihs, KeySeq(DOMAIN s4.ihs), ub)
    IN  IF s5.err # "none" THEN s5
        ELSE [s5 EXCEPT !.ihs = EmptyMap, !.cwd = Parent(s5.cwd)]

\* ------------------------------------------------------------------ create_table
\* An offset that is the length of the column before, not the running sum.
curr_offset_of_last(col_defs, i) == IF i = 1 THEN 0 ELSE col_defs[i - 1].len
\* Lines 231-243: each column starts where the columns before it end.
curr_offset(col_defs, i) == SumLen(SubSeq(col_defs, 1, i - 1))
TableCols(tab_name, col_defs) ==
    [i \in 1..Len(col_defs) |->
        [tab_name |-> tab_name, name |-> col_defs[i].name, type |-> col_defs[i].type,
         len |-> col_defs[i].len, offset |-> curr_offset(col_defs, i), index |-> FALSE]]
\* Line 245.
record_size(col_defs) == curr_offset(col_defs, Len(col_defs) + 1)

\* A create_table without the check of lines 227-229.
create_table_unchecked(s, tab_name, col_defs) ==
    LET tab == [name |-> tab_name, cols |-> TableCols(tab_name, col_defs),
                indexes |-> <<>>]
        s1 == RmCreateFile(s, tab_name, record_size(col_defs))
    IN  IF s1.err # "none" THEN s1
        ELSE flush_meta([RmOpenFile(s1, tab_name) EXCEPT
               !.db.tabs = Put(@, tab_name, tab),
               !.fhs = Emplace(@, tab_name, Handle(s.cwd, <<tab_name>>))])

\* Lines 226-253.
create_table(s, tab_name, col_defs) ==
    IF is_table(s.db, tab_name) THEN Throw(s, "TableExistsError")
    ELSE LET tab == [name |-> tab_name, cols |-> TableCols(tab_name, col_defs),
                     indexes |-> <<>>]
             s1 == RmCreateFile(s, tab_name, record_size(col_defs))
         IN  IF s1.err # "none" THEN s1
             ELSE flush_meta([RmOpenFile(s1, tab_name) EXCEPT
                    !.db.tabs = Put(@, tab_name, tab),
                    !.fhs = Emplace(@, tab_name, Handle(s.cwd, <<tab_name>>))])

\* ------------------------------------------------------------------ drop_table
\* std::map::operator[]: a missing key is inserted with a null handle.
Subscript(reg, k) == IF k \in DOMAIN reg THEN reg ELSE Put(reg, k, NullHandle)

\* A loop that stops after the first index of the table.
drop_table_first_index(s, tab_name, indexes, i, ub) ==
    IF i > 1 \/ i > Len(indexes) THEN s
    ELSE LET cols == ColNames(indexes[i].cols)
             index_name == get_index_name(<<tab_name>>, cols)
             s1 == [s EXCEPT !.ihs = Subscript(@, index_name)]
         IN  IF s1.ihs[index_name] = NullHandle /\ ub = "crash" THEN Crashed(s1)
             ELSE LET s2 == IxDestroyIndex(IxCloseIndex(s1, s1.ihs[index_name]),
                                           <<tab_name>>, cols)
                  IN  IF s2.err # "none" THEN s2
                      ELSE [s2 EXCEPT !.ihs = Del(@, index_name)]

\* Lines 264-269: each index of the table is closed, destroyed and taken
\* out of the registry.
RECURSIVE drop_table_indexes(_, _, _, _, _)
drop_table_indexes(s, tab_name, indexes, i, ub) ==
    IF i > Len(indexes) THEN s
    ELSE LET cols == ColNames(indexes[i].cols)
             index_name == get_index_name(<<tab_name>>, cols)
             s1 == [s EXCEPT !.ihs = Subscript(@, index_name)]
         IN  IF s1.ihs[index_name] = NullHandle /\ ub = "crash" THEN Crashed(s1)
             ELSE LET s2 == IxDestroyIndex(IxCloseIndex(s1, s1.ihs[index_name]),
                                           <<tab_name>>, cols)
                  IN  IF s2.err # "none" THEN s2
                      ELSE drop_table_indexes([s2 EXCEPT !.ihs = Del(@, index_name)],
                                              tab_name, indexes, i + 1, ub)

drop_table(s, tab_name, ub) ==
    IF ~is_table(s.db, tab_name) THEN Throw(s, "TableNotFoundError")
    ELSE LET tab == s.db.tabs[tab_name]
             s1 == [s EXCEPT !.fhs = Subscript(@, tab_name)]
         IN  IF s1.fhs[tab_name] = NullHandle /\ ub = "crash" THEN Crashed(s1)
             ELSE LET s2 == RmDestroyFile(RmCloseFile(s1, s1.fhs[tab_name]), tab_name)
                      s3 == IF s2.err # "none" THEN s2
                            ELSE drop_table_indexes(s2, tab_name, tab.indexes, 1, ub)
                  IN  IF s3.err # "none" THEN s3
                      ELSE flush_meta([s3 EXCEPT !.db.tabs = Del(@, tab_name),
                                                 !.fhs = Del(@, tab_name)])

\* ------------------------------------------------------------------ create_index
\* TabMeta::get_col: the first column of that name.
HasCol(tab, col_name) == \E i \in 1..Len(tab.cols) : tab.cols[i].name = col_name
get_col(tab, col_name) ==
    tab.cols[CHOOSE i \in 1..Len(tab.cols) :
        /\ tab.cols[i].name = col_name
        /\ \A j \in 1..(i - 1) : tab.cols[j].name # col_name]

\* Key bytes taken from the start of the record, whatever the offset.
KeyBytes_no_offset(data, col_meta) == SubSeq(data, 1, col_meta.len)
\* Lines 313-317: the key of a record is the bytes of the key columns, one
\* column after the other in the order of col_metas.
KeyBytes(data, col_meta) == SubSeq(data, col_meta.offset + 1, col_meta.offset + col_meta.len)
KeyOf(data, col_metas) == Flat([i \in 1..Len(col_metas) |-> KeyBytes(data, col_metas[i])])

\* Lines 310-328: insert one entry per scanned record until the index store
\* reports a duplicate key.  An entry is (key, rid); the rid of a record is
\* its position in the scan.
RECURSIVE build_index(_, _, _, _)
build_index(recs, col_metas, i, entries) ==
    IF i > Len(recs) THEN [entries |-> entries, dup |-> FALSE]
    ELSE LET key == KeyOf(recs[i], col_metas)
         IN  IF \E j \in 1..Len(entries) : entries[j].key = key
             THEN [entries |-> entries, dup |-> TRUE]
             ELSE build_index(recs, col_metas, i + 1,
                              Append(entries, [key |-> key, rid |-> i]))

\* An abort that closes the index and leaves its file.
create_index_abort_keeps_file(s, tab_name, col_names, ih) == IxCloseIndex(s, ih)
\* Lines 323-326: the way out on a duplicate key.
create_index_abort(s, tab_name, col_names, ih) ==
    IxDestroyIndex(IxCloseIndex(s, ih), <<tab_name>>, col_names)

\* Lines 332-343: the way out of a complete build.
create_index_register(s, tab_name, col_names, col_metas, ix_name, ih) ==
    LET index_meta == [tab_name |-> tab_name, col_tot_len |-> SumLen(col_metas),
                       col_num |-> Len(col_names), cols |-> col_metas]
    IN  flush_meta([s EXCEPT !.db.tabs[tab_name].indexes = Append(@, index_meta),
                             !.ihs = Put(@, ix_name, ih)])

\* A create_index without the check of lines 283-286.
create_index_unchecked(s, tab_name, col_names, recs, ub) ==
    LET ix_name == get_index_name(<<tab_name>>, col_names) IN
    IF ~is_table(s.db, tab_name) THEN Throw(s, "TableNotFoundError")
    ELSE LET table_meta == s.db.tabs[tab_name] IN
    IF \E i \in 1..Len(col_names) : ~HasCol(table_meta, col_names[i])
    THEN Throw(s, "ColumnNotFoundError")
    ELSE LET col_metas == [i \in 1..Len(col_names) |-> get_col(table_meta, col_names[i])]
             s1 == IxOpenIndex(IxCreateIndex(s, <<tab_name>>, col_names),
                               <<tab_name>>, col_names)
             ih == IxHandle(s1, <<tab_name>>, col_names)
             s2 == [s1 EXCEPT !.fhs = Subscript(@, tab_name)]
             null == s2.fhs[tab_name] = NullHandle
             scanned == IF null THEN <<>> ELSE recs
             b == build_index(scanned, col_metas, 1, <<>>)
             s3 == [s2 EXCEPT !.out.scan = scanned, !.out.entries = b.entries,
                              !.out.dup = b.dup]
         IN  IF null /\ ub = "crash" THEN Crashed(s2)
             ELSE IF b.dup THEN create_index_abort(s3, tab_name, col_names, ih)
             ELSE create_index_register(s3, tab_name, col_names, col_metas, ix_name, ih)

\* A create_index that asks the index store for the index before it
\* resolves the columns.
create_index_creates_first(s, tab_name, col_names, recs, ub) ==
    LET ix_name == get_index_name(<<tab_name>>, col_names) IN
    IF is_file(s, ix_name) THEN Throw(s, "IndexExistsError")
    ELSE IF ~is_table(s.db, tab_name) THEN Throw(s, "TableNotFoundError")
    ELSE LET table_meta == s.db.tabs[tab_name]
             s1 == IxOpenIndex(IxCreateIndex(s, <<tab_name>>, col_names),
                               <<tab_name>>, col_names)
         IN
    IF \E i \in 1..Len(col_names) : ~HasCol(table_meta, col_names[i])
    THEN Throw(s1, "ColumnNotFoundError")
    ELSE LET col_metas == [i \in 1..Len(col_names) |-> get_col(table_meta, col_names[i])]
             ih == IxHandle(s1, <<tab_name>>, col_names)
             s2 == [s1 EXCEPT !.fhs = Subscript(@, tab_name)]
             null == s2.fhs[tab_name] = NullHandle
             scanned == IF null THEN <<>> ELSE recs
             b == build_index(scanned, col_metas, 1, <<>>)
             s3 == [s2 EXCEPT !.out.scan = scanned, !.out.entries = b.entries,
                              !.out.dup = b.dup]
         IN  IF null /\ ub = "crash" THEN Crashed(s2)
             ELSE IF b.dup THEN create_index_abort(s3, tab_name, col_names, ih)
             ELSE create_index_register(s3, tab_name, col_names, col_metas, ix_name, ih)

\* Lines 282-345.
create_index(s, tab_name, col_names, recs, ub) ==
    LET ix_name == get_index_name(<<tab_name>>, col_names) IN
    IF is_file(s, ix_name) THEN Throw(s, "IndexExistsError")
    ELSE IF ~is_table(s.db, tab_name) THEN Throw(s, "TableNotFoundError")
    ELSE LET table_meta == s.db.tabs[tab_name] IN
    IF \E i \in 1..Len(col_names) : ~HasCol(table_meta, col_names[i])
    THEN Throw(s, "ColumnNotFoundError")
    ELSE LET col_metas == [i \in 1..Len(col_names) |-> get_col(table_meta, col_names[i])]
             s1 == IxOpenIndex(IxCreateIndex(s, <<tab_name>>, col_names),
                               <<tab_name>>, col_names)
             ih == IxHandle(s1, <<tab_name>>, col_names)
             s2 == [s1 EXCEPT !.fhs = Subscript(@, tab_name)]
             null == s2.fhs[tab_name] = NullHandle
             scanned == IF null THEN <<>> ELSE recs
             b == build_index(scanned, col_metas, 1, <<>>)
             s3 == [s2 EXCEPT !.out.scan = scanned, !.out.entries = b.entries,
                              !.out.dup = b.dup]
         IN  IF null /\ ub = "crash" THEN Crashed(s2)
             ELSE IF b.dup THEN create_index_abort(s3, tab_name, col_names, ih)
             ELSE create_index_register(s3, tab_name, col_names, col_metas, ix_name, ih)

\* ------------------------------------------------------------------ drop_index
\* TabMeta::get_index_meta: the first IndexMeta over exactly these columns.
HasIndexMeta(tab, col_names) ==
    \E i \in 1..Len(tab.indexes) : ColNames(tab.indexes[i].cols) = col_names
get_index_meta(tab, col_names) ==
    tab.indexes[CHOOSE i \in 1..Len(tab.indexes) :
        /\ ColNames(tab.indexes[i].cols) = col_names
        /\ \A j \in 1..(i - 1) : ColNames(tab.indexes[j].cols) # col_names]

\* Lines 371-378: every IndexMeta equal to the one found is removed.
drop_index_meta(s, tab_name, col_names) ==
    LET index == get_index_meta(s.db.tabs[tab_name], col_names)
    IN  [s EXCEPT !.db.tabs[tab_name].indexes = SelectSeq(@, LAMBDA idx : idx # index)]

\* A drop_index that destroys the index and closes its handle after.
drop_index_destroy_first(s, tab_name, col_names, ub) ==
    IF ~is_table(s.db, tab_name) THEN Throw(s, "TableNotFoundError")
    ELSE LET ix_name == get_index_name(<<tab_name>>, col_names) IN
    IF ~is_file(s, ix_name) THEN Throw(s, "IndexNotFoundError")
    ELSE LET s1 == [s EXCEPT !.ihs = Subscript(@, ix_name)] IN
    IF s1.ihs[ix_name] = NullHandle /\ ub = "crash" THEN Crashed(s1)
    ELSE LET s2 == IxCloseIndex(IxDestroyIndex(s1, <<tab_name>>, col_names),
                                s1.ihs[ix_name])
             s3 == [s2 EXCEPT !.ihs = Del(@, ix_name)]
         IN  IF s2.err # "none" THEN s2
             ELSE IF ~HasIndexMeta(s3.db.tabs[tab_name], col_names)
             THEN Throw(s3, "IndexNotFoundError")
             ELSE flush_meta(drop_index_meta(s3, tab_name, col_names))

drop_index(s, tab_name, col_names, ub) ==
    IF ~is_table(s.db, tab_name) THEN Throw(s, "TableNotFoundError")
    ELSE LET ix_name == get_index_name(<<tab_name>>, col_names) IN
    IF ~is_file(s, ix_name) THEN Throw(s, "IndexNotFoundError")
    ELSE LET s1 == [s EXCEPT !.ihs = Subscript(@, ix_name)] IN
    IF s1.ihs[ix_name] = NullHandle /\ ub = "crash" THEN Crashed(s1)
    ELSE LET s2 == IxDestroyIndex(IxCloseIndex(s1, s1.ihs[ix_name]),
                                  <<tab_name>>, col_names)
             s3 == [s2 EXCEPT !.ihs = Del(@, ix_name)]
         IN  IF s2.err # "none" THEN s2
             ELSE IF ~HasIndexMeta(s3.db.tabs[tab_name], col_names)
             THEN Throw(s3, "IndexNotFoundError")
             ELSE flush_meta(drop_index_meta(s3, tab_name, col_names))

\* A drop_index by ColMeta that leaves the handle in the registry.
drop_index_cols_keeps_handle(s, tab_name, cols, ub) ==
    IF ~is_table(s.db, tab_name) THEN Throw(s, "TableNotFoundError")
    ELSE LET ix_name == get_index_name(<<tab_name>>, ColNames(cols))
             col_names == [i \in 1..Len(cols) |-> cols[i].name]
         IN
    IF ~is_file(s, ix_name) THEN Throw(s, "IndexNotFoundError")
    ELSE LET s1 == [s EXCEPT !.ihs = Subscript(@, ix_name)] IN
    IF s1.ihs[ix_name] = NullHandle /\ ub = "crash" THEN Crashed(s1)
    ELSE LET s2 == IxDestroyIndex(IxCloseIndex(s1, s1.ihs[ix_name]),
                                  <<tab_name>>, ColNames(cols))
         IN  IF s2.err # "none" THEN s2
             ELSE IF ~HasIndexMeta(s2.db.tabs[tab_name], col_names)
             THEN Throw(s2, "IndexNotFoundError")
             ELSE flush_meta(drop_index_meta(s2, tab_name, col_names))

\* Lines 390-422: drop_index by the ColMeta of the key columns.  The index
\* store derives the canonical name from the names of the columns.
drop_index_cols(s, tab_name, cols, ub) ==
    IF ~is_table(s.db, tab_name) THEN Throw(s, "TableNotFoundError")
    ELSE LET ix_name == get_index_name(<<tab_name>>, ColNames(cols))
             col_names == [i \in 1..Len(cols) |-> cols[i].name]
         IN
    IF ~is_file(s, ix_name) THEN Throw(s, "IndexNotFoundError")
    ELSE LET s1 == [s EXCEPT !.ihs = Subscript(@, ix_name)] IN
    IF s1.ihs[ix_name] = NullHandle /\ ub = "crash" THEN Crashed(s1)
    ELSE LET s2 == IxDestroyIndex(IxCloseIndex(s1, s1.ihs[ix_name]),
                                  <<tab_name>>, ColNames(cols))
             s3 == [s2 EXCEPT !.ihs = Del(@, ix_name)]
         IN  IF s2.err # "none" THEN s2
             ELSE IF ~HasIndexMeta(s3.db.tabs[tab_name], col_names)
             THEN Throw(s3, "IndexNotFoundError")
             ELSE flush_meta(drop_index_meta(s3, tab_name, col_names))

\* ------------------------------------------------------------------ record store content
\* The records a scan may meet: byte strings of the record size that are 1
\* up to a cut and 0 after it.
Cuts == {0, 4, 9}
Bytes(k, size) == [i \in 1..size |-> IF i <= k THEN 1 ELSE 0]
RecordPool(size) == {Bytes(k, size) : k \in Cuts}
RecordLists(size) == UNION {[1..n -> RecordPool(size)] : n \in 0..MaxRecs}
\* The record size of a table, and what a scan of it may return.
TabRecordSize(d, tab_name) ==
    IF is_table(d, tab_name) THEN SumLen(d.tabs[tab_name].cols) ELSE 0
Scans(d, tab_name) == RecordLists(TabRecordSize(d, tab_name))

\* ------------------------------------------------------------------ actions
NoCall == [op |-> "init", db |-> "", tab |-> "", cols |-> <<>>, defs |-> <<>>,
           err |-> "none", out |-> NoOut]

Apply(r, c) ==
    /\ db' = r.db
    /\ fhs' = r.fhs
    /\ ihs' = r.ihs
    /\ cwd' = r.cwd
    /\ fs' = r.fs
    /\ call' = [c EXCEPT !.err = r.err, !.out = r.out]

Init ==
    /\ db = EmptyDb
    /\ fhs = EmptyMap
    /\ ihs = EmptyMap
    /\ cwd = <<>>
    /\ fs = (<<>> :> EmptyDir)
    /\ call = NoCall

\* A database is in use from the chdir of open_db to the chdir of close_db.
\* The callers create databases while none is in use, and run the table
\* and index calls and close_db while one is.
InUse == cwd # <<>>

\* The outcomes to explore for a call: both where it uses a null handle.
UBFor(r) == IF r.err = "Crash" THEN UBOutcomes ELSE {"noop"}
\* The scans to explore for a create_index call: one where it scans nothing.
ScanFor(r, tab_name) == IF r.out.scan = <<>> THEN {<<>>} ELSE Scans(db, tab_name)
ProbeScan(tab_name) == <<Bytes(0, TabRecordSize(db, tab_name))>>

CreateDb ==
    \E db_name \in CreateNames :
        /\ ~InUse
        /\ Apply(create_db(Cur, db_name), [NoCall EXCEPT !.op = "create_db", !.db = db_name])

OpenDb ==
    \E db_name \in DbNames :
        /\ db_name \in DbNames
        /\ Apply(open_db(Cur, db_name), [NoCall EXCEPT !.op = "open_db", !.db = db_name])

CloseDb ==
    \E ub \in UBFor(close_db(Cur, "crash")) :
        /\ InUse
        /\ Apply(close_db(Cur, ub), [NoCall EXCEPT !.op = "close_db"])

\* The process ends without close_db and a new manager is constructed.
Restart ==
    /\ Apply([Crashed(Cur) EXCEPT !.err = "none"], [NoCall EXCEPT !.op = "restart"])

CreateTable ==
    \E tab_name \in TabNames, col_defs \in Schemas :
        /\ InUse
        /\ Apply(create_table(Cur, tab_name, col_defs),
                 [NoCall EXCEPT !.op = "create_table", !.tab = tab_name, !.defs = col_defs])

DropTable ==
    \E tab_name \in TabNames :
      \E ub \in UBFor(drop_table(Cur, tab_name, "crash")) :
        /\ InUse
        /\ Apply(drop_table(Cur, tab_name, ub),
                 [NoCall EXCEPT !.op = "drop_table", !.tab = tab_name])

CreateIndex ==
    \E tab_name \in IndexTabs, col_names \in IndexColLists :
      \E ub \in UBFor(create_index(Cur, tab_name, col_names, <<>>, "crash")) :
        \E recs \in ScanFor(create_index(Cur, tab_name, col_names, ProbeScan(tab_name), "noop"), tab_name) :
            /\ InUse
            /\ Apply(create_index(Cur, tab_name, col_names, recs, ub),
                     [NoCall EXCEPT !.op = "create_index", !.tab = tab_name,
                                    !.cols = col_names])

DropIndex ==
    \E tab_name \in IndexTabs, col_names \in IndexColLists :
      \E ub \in UBFor(drop_index(Cur, tab_name, col_names, "crash")) :
        /\ InUse
        /\ Apply(drop_index(Cur, tab_name, col_names, ub),
                 [NoCall EXCEPT !.op = "drop_index", !.tab = tab_name, !.cols = col_names])

\* The ColMeta a caller passes for a column name: the column of the table
\* where there is one.
MetaFor(d, tab_name, col_name) ==
    IF is_table(d, tab_name) /\ HasCol(d.tabs[tab_name], col_name)
    THEN get_col(d.tabs[tab_name], col_name)
    ELSE [tab_name |-> tab_name, name |-> col_name, type |-> "INT", len |-> 4,
          offset |-> 0, index |-> FALSE]
MetasFor(d, tab_name, col_names) ==
    [i \in 1..Len(col_names) |-> MetaFor(d, tab_name, col_names[i])]

DropIndexCols ==
    \E tab_name \in IndexTabs, col_names \in IndexColLists :
      \E ub \in UBFor(drop_index_cols(Cur, tab_name, MetasFor(db, tab_name, col_names), "crash")) :
        /\ InUse
        /\ Apply(drop_index_cols(Cur, tab_name, MetasFor(db, tab_name, col_names), ub),
                 [NoCall EXCEPT !.op = "drop_index_cols", !.tab = tab_name,
                                !.cols = col_names])

Next ==
    \/ CreateTable
    \/ DropTable
    \/ CreateIndex
    \/ DropIndex
    \/ DropIndexCols
    \/ CreateDb
    \/ OpenDb
    \/ CloseDb
    \/ Restart

Spec == Init /\ [][Next]_vars

\* ------------------------------------------------------------------ claims
DDLOps == {"create_table", "drop_table", "create_index", "drop_index", "drop_index_cols"}
\* The manager's state after the step, as a value.
CurNext == [db |-> db', fhs |-> fhs', ihs |-> ihs', cwd |-> cwd', fs |-> fs',
            err |-> "none", out |-> NoOut]
\* The canonical names of the IndexMeta entries of a table and of a catalog.
TabIndexNames(tab) ==
    {get_index_name(<<tab.name>>, ColNames(tab.indexes[i].cols)) : i \in 1..Len(tab.indexes)}
CatalogIndexNames(d) == UNION {TabIndexNames(d.tabs[t]) : t \in DOMAIN d.tabs}
RECURSIVE CountIndexes(_, _)
CountIndexes(d, names) ==
    IF names = <<>> THEN 0
    ELSE Len(d.tabs[Head(names)].indexes) + CountIndexes(d, Tail(names))
\* One record handle per table of the catalog, under the table's name, and
\* one index handle per IndexMeta, under its canonical name, each open on
\* the file of that name in the database directory.
RegistriesMatch ==
    /\ DOMAIN fhs = DOMAIN db.tabs
    /\ \A t \in DOMAIN fhs : fhs[t] = Handle(cwd, <<t>>)
    /\ DOMAIN ihs = CatalogIndexNames(db)
    /\ \A k \in DOMAIN ihs : ihs[k] = Handle(cwd, k)
    /\ Cardinality(DOMAIN ihs) = CountIndexes(db, TabSeq(db))

ColTuples(tab) ==
    [i \in 1..Len(tab.cols) |->
        [name |-> tab.cols[i].name, type |-> tab.cols[i].type,
         len |-> tab.cols[i].len, offset |-> tab.cols[i].offset]]
IndexTuples(tab) ==
    {[tab_name |-> tab.indexes[i].tab_name, cols |-> ColNames(tab.indexes[i].cols)] :
        i \in 1..Len(tab.indexes)}
SameCatalog(x, y) ==
    /\ x.name = y.name
    /\ DOMAIN x.tabs = DOMAIN y.tabs
    /\ \A t \in DOMAIN x.tabs :
        /\ ColTuples(x.tabs[t]) = ColTuples(y.tabs[t])
        /\ IndexTuples(x.tabs[t]) = IndexTuples(y.tabs[t])

\* C2: when an open database is closed, opening the same database again
\* yields the catalog held immediately before the close: the same name, the
\* same tables, the same column tuples and the same index tuples.
C2_CloseThenOpenKeepsCatalog ==
    [][(call'.op = "close_db" /\ call'.err = "none" /\ db.name # "")
        => SameCatalog(open_db(CurNext, cwd[Len(cwd)]).db, db)]_vars

\* Every file the catalog names is on the disk of the database directory.
Intact ==
    \A t \in DOMAIN db.tabs :
        /\ RmFileExists(Cur, t)
        /\ TabIndexNames(db.tabs[t]) \subseteq fs[cwd].idx

\* C3: an Open of an existing database while none is open, with every file
\* of its persisted catalog in place, succeeds and leaves exactly one record
\* handle per table and one index handle per IndexMeta of every table.
C3_OpenRegistersEveryHandle ==
    (/\ call.op = "open_db"
     /\ call.err \notin {"DatabaseNotFoundError", "DatabaseExistsError"}
     /\ Intact)
    => (call.err = "none" /\ RegistriesMatch)

\* C4: an Open that follows a successful Open, with no Close between, fails
\* as already open and changes neither the catalog, nor a registry, nor the
\* working directory, nor the disk.
C4_OpenWhileOpenIsAlreadyOpen ==
    [][(call.op = "open_db" /\ call.err = "none" /\ call'.op = "open_db")
        => (call'.err = "DatabaseExistsError" /\ UNCHANGED <<db, fhs, ihs, cwd, fs>>)]_vars

\* The key the claims speak of: for each name of col_names in turn, the
\* bytes [offset, offset + len) of the record under the column of that name.
ColNamed(tab, col_name) ==
    CHOOSE c \in {tab.cols[i] : i \in 1..Len(tab.cols)} : c.name = col_name
RECURSIVE CompositeKey(_, _, _)
CompositeKey(data, tab, col_names) ==
    IF col_names = <<>> THEN <<>>
    ELSE LET c == ColNamed(tab, Head(col_names))
         IN  [i \in 1..c.len |-> data[c.offset + i]]
             \o CompositeKey(data, tab, Tail(col_names))
SharesKey(scan, tab, col_names) ==
    \E i, j \in 1..Len(scan) :
        i < j /\ CompositeKey(scan[i], tab, col_names) = CompositeKey(scan[j], tab, col_names)
\* create_index(tab_name, col_names) gets as far as the scan of the table:
\* no file of the canonical name, the table and its columns are known, and
\* the record file of the table is open.
ReachesScan(tab_name, col_names) ==
    /\ ~is_file(Cur, get_index_name(<<tab_name>>, col_names))
    /\ is_table(db, tab_name)
    /\ \A i \in 1..Len(col_names) : HasCol(db.tabs[tab_name], col_names[i])
    /\ tab_name \in DOMAIN fhs
    /\ fhs[tab_name] # NullHandle

\* C5: a CreateIndex whose scan meets two records with the same composite
\* key returns with the catalog, the registries and the whole disk (the
\* persisted metadata included) as before the call, the new index closed
\* and then destroyed, and no file of the canonical name left.
C5_DuplicateKeyRegistersNothing ==
    [][(/\ call'.op = "create_index"
        /\ ReachesScan(call'.tab, call'.cols)
        /\ SharesKey(call'.out.scan, db.tabs[call'.tab], call'.cols))
        => LET ix_name == get_index_name(<<call'.tab>>, call'.cols)
           IN  /\ call'.err = "none"
               /\ UNCHANGED <<db, fhs, ihs, cwd, fs>>
               /\ ~is_file(CurNext, ix_name)
               /\ call'.out.events =
                    <<[op |-> "create_index", file |-> ix_name],
                      [op |-> "open_index", file |-> ix_name],
                      [op |-> "close_index", file |-> ix_name],
                      [op |-> "destroy_index", file |-> ix_name]>>]_vars

C5_Witness ==
    /\ call.op = "create_index"
    /\ call.out.dup
    /\ Len(call.cols) = 2
    /\ Len(call.out.scan) = 2

\* C6: a CreateIndex whose scan meets records of pairwise different
\* composite keys inserts one (key, rid) entry per record, the key being
\* the composite key of the record over col_names, adds one IndexMeta over
\* col_names to the table, registers the handle and persists the catalog.
C6_BuildInsertsOneEntryPerRecord ==
    [][(/\ call'.op = "create_index"
        /\ ReachesScan(call'.tab, call'.cols)
        /\ ~SharesKey(call'.out.scan, db.tabs[call'.tab], call'.cols))
        => LET ix_name == get_index_name(<<call'.tab>>, call'.cols)
               old == db.tabs[call'.tab].indexes
               new == db'.tabs[call'.tab].indexes
           IN  /\ call'.err = "none"
               /\ call'.out.entries =
                    [i \in 1..Len(call'.out.scan) |->
                        [key |-> CompositeKey(call'.out.scan[i], db.tabs[call'.tab], call'.cols),
                         rid |-> i]]
               /\ Len(new) = Len(old) + 1
               /\ SubSeq(new, 1, Len(old)) = old
               /\ ColNames(new[Len(new)].cols) = call'.cols
               /\ ix_name \in DOMAIN ihs'
               /\ ihs'[ix_name] = Handle(cwd, ix_name)
               /\ fs'[cwd].meta = FileOf(Serialize(db'))]_vars

C6_Witness ==
    /\ call.op = "create_index"
    /\ call.err = "none"
    /\ ~call.out.dup
    /\ Len(call.cols) = 2
    /\ Len(call.out.entries) = 2
    /\ call.out.entries[1].key # call.out.entries[2].key

\* C7: after every CreateTable, DropTable, CreateIndex or DropIndex that
\* went through, the metadata file of the database holds the serialization
\* of the catalog in memory.
C7_MetaFileFollowsCatalog ==
    (call.op \in DDLOps /\ call.err = "none" /\ ~call.out.dup)
    => fs[cwd].meta = FileOf(Serialize(db))

C7_Witness ==
    /\ call.op = "drop_index"
    /\ call.err = "none"
    /\ DOMAIN db.tabs = TabNames
    /\ fs[cwd].meta = FileOf(Serialize(db))

\* C8: a DropTable that went through leaves the table out of the catalog
\* and of the record-handle registry, its record file gone, none of its
\* indexes with a handle or a file, and every DropIndex on it failing with
\* the table not found.
C8_DropTableRemovesItsIndexes ==
    [][(call'.op = "drop_table" /\ call'.err = "none")
        => LET t == call'.tab
               names == TabIndexNames(db.tabs[t])
           IN  /\ ~is_table(db', t)
               /\ t \notin DOMAIN fhs'
               /\ ~RmFileExists(CurNext, t)
               /\ \A n \in names :
                    /\ n \notin DOMAIN ihs'
                    /\ ~is_file(CurNext, n)
               /\ \A k \in DOMAIN ihs' : ihs'[k].file \notin names
               /\ \A cols \in IndexColLists, ub \in UBOutcomes :
                    drop_index(CurNext, t, cols, ub).err = "TableNotFoundError"]_vars

C8_Witness ==
    /\ call.op = "drop_table"
    /\ call.err = "none"
    /\ Cardinality({i \in 1..Len(call.out.events) :
                        call.out.events[i].op = "destroy_index"}) = 2

\* ------------------------------------------------------------ record layout
\* CreateTable alone, on a database that was created and opened, over
\* schemas of one to three columns of three different lengths.
ColC == [name |-> "c", type |-> "CHAR", len |-> 3]
LayoutCols == {ColA, ColB, ColC}
LayoutTabs == {"t1"}
LayoutSchemas ==
    {<<x>> : x \in LayoutCols}
    \cup {<<x, y>> : x \in LayoutCols, y \in LayoutCols}
    \cup {<<x, y, z>> : x \in LayoutCols, y \in LayoutCols, z \in LayoutCols}

Fresh == [db |-> EmptyDb, fhs |-> EmptyMap, ihs |-> EmptyMap, cwd |-> <<>>,
          fs |-> Put(EmptyMap, <<>>, EmptyDir), err |-> "none", out |-> NoOut]

InitLayout ==
    LET s == open_db(create_db(Fresh, "d1"), "d1")
    IN  /\ db = s.db
        /\ fhs = s.fhs
        /\ ihs = s.ihs
        /\ cwd = s.cwd
        /\ fs = s.fs
        /\ call = [NoCall EXCEPT !.op = "open_db", !.db = "d1"]

CreateTableLayout ==
    \E tab_name \in LayoutTabs, col_defs \in LayoutSchemas :
        /\ InUse
        /\ Apply(create_table(Cur, tab_name, col_defs),
                 [NoCall EXCEPT !.op = "create_table", !.tab = tab_name, !.defs = col_defs])

NextLayout == CreateTableLayout \/ DropTable

SpecLayout == InitLayout /\ [][NextLayout]_vars

RECURSIVE LenSum(_, _)
LenSum(col_defs, n) == IF n = 0 THEN 0 ELSE col_defs[n].len + LenSum(col_defs, n - 1)

\* C9: a CreateTable that went through gives column i the offset that is
\* the sum of the lengths of the columns declared before it, so the first
\* column starts at 0 and each column starts where the one before ends, and
\* gives the record file the sum of all the lengths as its record size;
\* declaring a(INT, 4) then b(CHAR, 8) gives offsets 0 and 4 and size 12.
C9_OffsetsAreRunningSums ==
    (call.op = "create_table" /\ call.err = "none")
    => LET defs == call.defs
           cols == db.tabs[call.tab].cols
       IN  /\ Len(cols) = Len(defs)
           /\ \A i \in 1..Len(defs) :
                /\ cols[i].name = defs[i].name
                /\ cols[i].type = defs[i].type
                /\ cols[i].len = defs[i].len
                /\ cols[i].offset = LenSum(defs, i - 1)
           /\ cols[1].offset = 0
           /\ \A i \in 1..(Len(cols) - 1) : cols[i + 1].offset = cols[i].offset + cols[i].len
           /\ fs[cwd].recs[call.tab] = LenSum(defs, Len(defs))
           /\ defs = <<ColA, ColB>>
                => /\ cols[1].offset = 0
                   /\ cols[2].offset = 4
                   /\ fs[cwd].recs[call.tab] = 12

C9_Witness ==
    /\ call.op = "create_table"
    /\ call.err = "none"
    /\ call.defs = <<ColA, ColB, ColC>>
    /\ db.tabs[call.tab].cols[3].offset = 12
    /\ fs[cwd].recs[call.tab] = 15

\* ------------------------------------------------ create_db at any time
\* create_db called whether or not a database is in use, on databases of
\* one table; directories nest no deeper than MaxDepth.
NestedSchemas == {<<ColA, ColB>>}

CreateDbAnyTime ==
    \E db_name \in CreateNames :
        /\ Len(cwd) < MaxDepth
        /\ Apply(create_db(Cur, db_name), [NoCall EXCEPT !.op = "create_db", !.db = db_name])

CreateTableNested ==
    \E tab_name \in LayoutTabs, col_defs \in NestedSchemas :
        /\ InUse
        /\ Apply(create_table(Cur, tab_name, col_defs),
                 [NoCall EXCEPT !.op = "create_table", !.tab = tab_name, !.defs = col_defs])

NextNested ==
    \/ CreateDbAnyTime
    \/ OpenDb
    \/ CloseDb
    \/ Restart
    \/ CreateTableNested
    \/ DropTable

SpecNested == Init /\ [][NextNested]_vars

\* The database units are the directories of the directory the manager
\* was started in.
UnitExists(db_name) == <<db_name>> \in DOMAIN fs

\* C10: a Create of a name whose unit exists fails as existing and changes
\* neither the disk, nor the catalog, nor a registry, nor the working
\* directory.
C10_CreateExistingChangesNothing ==
    [][(call'.op = "create_db" /\ UnitExists(call'.db))
        => (call'.err = "DatabaseExistsError" /\ UNCHANGED <<db, fhs, ihs, cwd, fs>>)]_vars

\* ------------------------------------------------------- close before destroy
\* A registry holds a handle on the file of the working directory.
HeldInRegistry(file) ==
    \/ \E k \in DOMAIN fhs : fhs[k] = Handle(cwd, file)
    \/ \E k \in DOMAIN ihs : ihs[k] = Handle(cwd, file)
\* The call opened the file before its event i.
OpenedBefore(events, i, file) ==
    \E j \in 1..(i - 1) : events[j].op \in {"open_file", "open_index"} /\ events[j].file = file
ClosedBefore(events, i, file) ==
    \E j \in 1..(i - 1) : events[j].op \in {"close_file", "close_index"} /\ events[j].file = file
\* No registry holds a handle on a file that is not on the disk.
NoHandleOnMissingFile(f, rf, ri) ==
    /\ \A k \in DOMAIN rf :
         rf[k] # NullHandle => rf[k].file[1] \in DOMAIN f[rf[k].dir].recs
    /\ \A k \in DOMAIN ri :
         ri[k] # NullHandle => ri[k].file \in f[ri[k].dir].idx

desc_table(d, tab_name) ==
    [i \in 1..Len(d.tabs[tab_name].cols) |->
        LET col == d.tabs[tab_name].cols[i]
        IN  [Field |-> col.name, Type |-> col.type,
             Index |-> IF col.index THEN "YES" ELSE "NO"]]

\* Some IndexMeta of the table has a column of this name.
InSomeIndex(tab, col_name) ==
    \E j \in 1..Len(tab.indexes) :
        \E k \in 1..Len(tab.indexes[j].cols) : tab.indexes[j].cols[k].name = col_name

\* C12: in every catalog, desc_table reports a column as indexed exactly
\* when some IndexMeta of its table holds the column.
C12_IndexFlagFollowsIndexes ==
    \A t \in DOMAIN db.tabs :
        \A i \in 1..Len(db.tabs[t].cols) :
            (desc_table(db, t)[i].Index = "YES")
                <=> InSomeIndex(db.tabs[t], desc_table(db, t)[i].Field)

\* ------------------------------------------------------------ index identity
\* The IndexMeta entries of a table over exactly these column names.
WithIdentity(tab, col_names) ==
    {j \in 1..Len(tab.indexes) : ColNames(tab.indexes[j].cols) = col_names}

\* C13: no table ever holds two IndexMeta entries over the same ordered
\* column names, and a create_index over the column names of an IndexMeta
\* the table holds fails as existing and changes neither the catalog, nor a
\* registry, nor the disk.
C13_OneIndexPerIdentity ==
    [][/\ \A t \in DOMAIN db'.tabs :
            \A j \in 1..Len(db'.tabs[t].indexes) :
                Cardinality(WithIdentity(db'.tabs[t],
                                         ColNames(db'.tabs[t].indexes[j].cols))) = 1
       /\ (/\ call'.op = "create_index"
           /\ is_table(db, call'.tab)
           /\ WithIdentity(db.tabs[call'.tab], call'.cols) # {})
          => /\ call'.err = "IndexExistsError"
             /\ UNCHANGED <<db, fhs, ihs, cwd, fs>>]_vars

C13_Witness ==
    /\ call.op = "create_index"
    /\ call.err = "IndexExistsError"
    /\ is_table(db, call.tab)
    /\ Len(db.tabs[call.tab].indexes) = 2
    /\ WithIdentity(db.tabs[call.tab], call.cols) # {}

\* ------------------------------------------------- index calls on any column list
\* The index calls on a created and opened database of one table, with
\* column-name lists that are empty or name a column twice.
WideColLists == {<<>>, <<"a">>, <<"a", "a">>, <<"b", "a">>}

CreateIndexAnyCols ==
    \E tab_name \in LayoutTabs, col_names \in WideColLists :
      \E ub \in UBFor(create_index(Cur, tab_name, col_names, <<>>, "crash")) :
        \E recs \in ScanFor(create_index(Cur, tab_name, col_names, ProbeScan(tab_name), "noop"), tab_name) :
            /\ InUse
            /\ Apply(create_index(Cur, tab_name, col_names, recs, ub),
                     [NoCall EXCEPT !.op = "create_index", !.tab = tab_name,
                                    !.cols = col_names])

DropIndexAnyCols ==
    \E tab_name \in LayoutTabs, col_names \in WideColLists :
      \E ub \in UBFor(drop_index(Cur, tab_name, col_names, "crash")) :
        /\ InUse
        /\ Apply(drop_index(Cur, tab_name, col_names, ub),
                 [NoCall EXCEPT !.op = "drop_index", !.tab = tab_name, !.cols = col_names])

NextAnyCols ==
    \/ CreateTableNested
    \/ DropTable
    \/ CreateIndexAnyCols
    \/ DropIndexAnyCols

SpecAnyCols == InitLayout /\ [][NextAnyCols]_vars

\* C14: every IndexMeta of every catalog has a column sequence that is not
\* empty, a column count that is the length of the sequence, entries that
\* are each a ColMeta of its table, and a key length that is the sum of the
\* lengths of the entries.
C14_IndexMetaWellFormed ==
    \A t \in DOMAIN db.tabs :
        \A j \in 1..Len(db.tabs[t].indexes) :
            LET ix == db.tabs[t].indexes[j]
            IN  /\ Len(ix.cols) > 0
                /\ ix.col_num = Len(ix.cols)
                /\ \A k \in 1..Len(ix.cols) :
                     \E i \in 1..Len(db.tabs[t].cols) : ix.cols[k] = db.tabs[t].cols[i]
                /\ ix.col_tot_len = LenSum(ix.cols, Len(ix.cols))

\* ------------------------------------------------------------------ after close_db
\* How often the call made this call on this file.
EventCount(events, op, file) ==
    Cardinality({i \in 1..Len(events) : events[i].op = op /\ events[i].file = file})
\* After the call a registry holds a handle on the file.
HeldAfter(file) ==
    \/ \E k \in DOMAIN fhs' : fhs'[k] = Handle(cwd', file)
    \/ \E k \in DOMAIN ihs' : ihs'[k] = Handle(cwd', file)

\* C15: a close_db that returns leaves both registries empty, the catalog
\* without a name and without a table, and the working directory where the
\* open_db it matches found it; it has closed every handle of the
\* registries once, none of which an earlier call had closed and left
\* registered; and no open_db after it fails as already open.
C15_CloseDrainsRegistries ==
    [][/\ (call'.op = "close_db" /\ call'.err = "none")
          => /\ fhs' = EmptyMap
             /\ ihs' = EmptyMap
             /\ db' = EmptyDb
             /\ cwd' = Parent(cwd)
             /\ \A k \in DOMAIN fhs :
                  fhs[k] # NullHandle
                    => EventCount(call'.out.events, "close_file", fhs[k].file) = 1
             /\ \A k \in DOMAIN ihs :
                  ihs[k] # NullHandle
                    => EventCount(call'.out.events, "close_index", ihs[k].file) = 1
             /\ \A db_name \in DbNames :
                  open_db(CurNext, db_name).err # "DatabaseExistsError"
       /\ (call'.op = "open_db" /\ cwd' # cwd) => Parent(cwd') = cwd
       /\ \A i \in 1..Len(call'.out.events) :
            (/\ call'.out.events[i].op \in {"close_file", "close_index"}
             /\ call'.out.events[i].file # <<>>)
            => ~HeldAfter(call'.out.events[i].file)]_vars

C15_Witness ==
    /\ call.op = "close_db"
    /\ call.err = "none"
    /\ EventCount(call.out.events, "close_file", <<"t1">>) = 1
    /\ EventCount(call.out.events, "close_file", <<"t2">>) = 1
    /\ EventCount(call.out.events, "close_index", get_index_name(<<"t1">>, <<"a">>)) = 1
    /\ EventCount(call.out.events, "close_index", get_index_name(<<"t1">>, <<"b", "a">>)) = 1

\* ------------------------------------------------------------------ after create_db
\* C16: a create_db that returns has made the directory of the database
\* with a metadata file that reads back as a catalog of that name without
\* tables, a log file, and no other file; it has changed no other
\* directory, and left the catalog in memory, both registries and the
\* working directory as they were.
C16_CreateDoesNotOpen ==
    [][(call'.op = "create_db" /\ call'.err = "none")
        => LET wd == cwd \o <<call'.db>>
           IN  /\ UNCHANGED <<db, fhs, ihs, cwd>>
               /\ DOMAIN fs' = DOMAIN fs \cup {wd}
               /\ wd \notin DOMAIN fs
               /\ \A d \in DOMAIN fs : fs'[d] = fs[d]
               /\ fs'[wd].meta.exists
               /\ Load(fs'[wd].meta.data) = [name |-> call'.db, tabs |-> EmptyMap]
               /\ fs'[wd].log
               /\ fs'[wd].recs = EmptyMap
               /\ fs'[wd].idx = {}]_vars

C16_Witness ==
    /\ call.op = "create_db"
    /\ call.err = "none"
    /\ db.name # ""
    /\ DOMAIN fhs # {}
    /\ cwd # <<>>

\* ------------------------------------------------------------------ unknown column
\* C17: a create_index on a table of the catalog with a name that is no
\* column of the table fails with the column not found, before any call on
\* the index store or the record store: no file is made, and the catalog,
\* the metadata file and both registries are as before.
C17_UnknownColumnBeforeIndexStore ==
    [][(/\ call'.op = "create_index"
        /\ is_table(db, call'.tab)
        /\ \E i \in 1..Len(call'.cols) : ~HasCol(db.tabs[call'.tab], call'.cols[i]))
        => /\ call'.err = "ColumnNotFoundError"
           /\ call'.out.events = <<>>
           /\ UNCHANGED <<db, fhs, ihs, cwd, fs>>]_vars

C17_Witness ==
    /\ call.op = "create_index"
    /\ call.err = "ColumnNotFoundError"
    /\ is_table(db, call.tab)
    /\ Len(db.tabs[call.tab].indexes) > 0
    /\ call.cols = <<"c">>

\* ------------------------------------------------------------------ active database
\* C18: after every open_db that returns, the catalog in memory carries
\* the name the database was opened by, which is not empty.
C18_OpenedCatalogIsNamed ==
    (call.op = "open_db" /\ call.err = "none")
    => (db.name # "" /\ db.name = call.db)

\* ------------------------------------------------------------------ rejected calls
\* The call is one the handler rejects at its start.
Rejected(c) ==
    \/ c.op = "create_table" /\ is_table(db, c.tab)
    \/ c.op = "drop_table" /\ ~is_table(db, c.tab)
    \/ /\ c.op \in {"drop_index", "drop_index_cols"}
       /\ \/ ~is_table(db, c.tab)
          \/ ~is_file(Cur, get_index_name(<<c.tab>>, c.cols))
RejectedWith(c) ==
    IF c.op = "create_table" THEN "TableExistsError"
    ELSE IF ~is_table(db, c.tab) THEN "TableNotFoundError"
    ELSE "IndexNotFoundError"

\* C19: a create_table of a table of the catalog, a drop_table of a table
\* not in the catalog, and a drop_index (by names or by ColMeta) of a table
\* not in the catalog or of an index whose canonical file is absent each
\* fail with their error and leave the catalog, the registries, the
\* working directory and the whole disk as they were.
C19_RejectedCallChangesNothing ==
    [][Rejected(call')
        => /\ call'.err = RejectedWith(call')
           /\ call'.out.events = <<>>
           /\ UNCHANGED <<db, fhs, ihs, cwd, fs>>]_vars

C19_Witness ==
    /\ call.op = "drop_index_cols"
    /\ call.err = "IndexNotFoundError"
    /\ is_table(db, call.tab)
    /\ Len(db.tabs[call.tab].indexes) = 1
    /\ DOMAIN ihs # {}
    /\ ~is_file(Cur, get_index_name(<<call.tab>>, call.cols))

\* ------------------------------------------------------------------ two drop_index
\* C20: in every state, for every table and column-name list, drop_index
\* by the names and drop_index by the ColMeta of those names end alike:
\* the same error or return, the same catalog, registries, working
\* directory and disk, the same calls on the index store.
C20_DropIndexShapesAgree ==
    \A tab_name \in TabNames, col_names \in IndexColLists, ub \in UBOutcomes :
        drop_index(Cur, tab_name, col_names, ub)
            = drop_index_cols(Cur, tab_name, MetasFor(db, tab_name, col_names), ub)

C20_Witness ==
    /\ call.op = "drop_index_cols"
    /\ call.err = "none"
    /\ Len(call.cols) = 2
    /\ is_table(db, call.tab)
    /\ Len(db.tabs[call.tab].indexes) = 1
    /\ fs[cwd].idx = {get_index_name(<<call.tab>>, <<"a">>)}

====
